---- MODULE Spec2Model ----
(***************************************************************************)
(* The feed hook of ZComu (src/src/hooks/use-feed-page.ts) together with   *)
(* the route handlers it talks to, as a state machine.                     *)
(*                                                                         *)
(* The client is single threaded: a handler runs up to its next await in   *)
(* one step.  Every handler invocation is a task; a task waits for its     *)
(* request ("sent"), the server handles the request at some later moment   *)
(* (the response is then on its way back: "resp"), and the continuation    *)
(* after the await runs when the response is delivered ("done").           *)
(***************************************************************************)
EXTENDS Integers, Sequences, FiniteSets, TLC

\* ------------------------------------------------------------------ bounds
MaxOps == 3          \* handler invocations that issue an API request
MaxSelects == 1      \* file selections (handleFileSelect invocations)
MaxFiles == 2        \* files picked in one selection
MaxOtherOps == 1     \* like/unlike requests of another session
MaxPublishes == 1     \* handlePublish invocations that issue a request
MaxSessionChanges == 2  \* session objects set after the first one
MaxCounter == 2         \* the largest counter a payload carries

\* ------------------------------------------------------------------ values
Viewer == "alice"
Other == "bob"
NoUser == "nobody"                 \* user === null
Null == "null"                     \* a null error slot

MediaNotReadyMsg == "Please wait for all media to finish uploading."
EmptyPostMsg == "Write something or attach media before posting."
TransportMsg == "Something went wrong"
UnauthorizedMsg == "Authorization header is required"
BadPostMsg == "Post must contain content or media"
BadCommentMsg == "Comment text is required"
UploadFailedMsg == "Upload failed"

Visibilities == {"public", "friends", "private"}

\* Texts are sequences of characters; " " is the only white space used.
DraftTexts == {<<>>, <<" ">>, <<"h">>, <<" ", "h", " ">>}

DEFAULT_POST_LIMIT == 20

Min(a, b) == IF a < b THEN a ELSE b

RECURSIVE TrimStart(_)
TrimStart(s) ==
  IF s = <<>> THEN s
  ELSE IF Head(s) = " " THEN TrimStart(Tail(s)) ELSE s

RECURSIVE TrimEnd(_)
TrimEnd(s) ==
  IF s = <<>> THEN s
  ELSE IF s[Len(s)] = " " THEN TrimEnd(SubSeq(s, 1, Len(s) - 1)) ELSE s

\* String.prototype.trim
Trim(s) == TrimEnd(TrimStart(s))

\* Array.prototype.filter / some on sequences
Filter(s, Keep(_)) == SelectSeq(s, Keep)

Some(s, P(_)) == \E i \in 1..Len(s) : P(s[i])

\* Array.prototype.map
Map(s, F(_)) == [i \in 1..Len(s) |-> F(s[i])]

\* ------------------------------------------------------------------ server
\* toFeedPost: the row with its relations, the derived counters and the
\* viewer's flags.
toFeedPost(raw, currentUserId) ==
  [id |-> raw.id,
   user_id |-> raw.user_id,
   content |-> raw.content,
   visibility |-> raw.visibility,
   post_media |-> raw.post_media,
   likes |-> raw.likes,
   comments |-> raw.comments,
   likes_count |-> Len(raw.likes),
   comments_count |-> Len(raw.comments),
   has_liked |-> Some(raw.likes, LAMBDA u : u = currentUserId),
   is_owner |-> raw.user_id = currentUserId]

toFeedPosts(rawPosts, currentUserId) ==
  Map(rawPosts, LAMBDA raw : toFeedPost(raw, currentUserId))

\* GET /api/posts: newest first, at most `limit` rows.
FeedPage(rows, currentUserId) ==
  toFeedPosts(SubSeq(rows, 1, Min(Len(rows), DEFAULT_POST_LIMIT)), currentUserId)

\* fetchLikesSnapshot: the like rows of one post, newest first.
fetchLikesSnapshot(rows, postId, currentUserId) ==
  LET hit == Filter(rows, LAMBDA r : r.id = postId)
      likes == IF hit = <<>> THEN <<>> ELSE hit[1].likes
  IN [likes |-> likes,
      likes_count |-> Len(likes),
      has_liked |-> Some(likes, LAMBDA u : u = currentUserId)]

\* upsert on (post_id, user_id): a second like of the same user adds no row.
UpsertLike(rows, postId, userId) ==
  Map(rows, LAMBDA r :
    IF r.id = postId /\ ~Some(r.likes, LAMBDA u : u = userId)
    THEN [r EXCEPT !.likes = <<userId>> \o r.likes]
    ELSE r)

DeleteLike(rows, postId, userId) ==
  Map(rows, LAMBDA r :
    IF r.id = postId
    THEN [r EXCEPT !.likes = Filter(r.likes, LAMBDA u : u # userId)]
    ELSE r)

PostExists(rows, postId) == Some(rows, LAMBDA r : r.id = postId)

\* POST /api/posts: the inserted row, newest first.
InsertPost(rows, id, userId, content, visibility, media) ==
  <<[id |-> id,
     user_id |-> userId,
     content |-> content,
     visibility |-> visibility,
     post_media |-> media,
     likes |-> <<>>,
     comments |-> <<>>]>> \o rows

\* toFeedComment: the inserted row with the author's profile summary.
toFeedComment(raw) ==
  [id |-> raw.id, user_id |-> raw.user_id, text |-> raw.text,
   profiles |-> raw.profiles]

\* insert into comments: the row joins the comments of its post.
InsertComment(rows, postId, id, userId, text) ==
  Map(rows, LAMBDA r :
    IF r.id = postId
    THEN [r EXCEPT !.comments =
            Append(r.comments, [id |-> id, user_id |-> userId, text |-> text,
                                profiles |-> userId])]
    ELSE r)

\* delete from posts where id = postId and user_id = userId.
DeletePostRow(rows, postId, userId) ==
  Filter(rows, LAMBDA r : ~(r.id = postId /\ r.user_id = userId))

\* ------------------------------------------------------------------ hydratePost
\* The fields of ApiPost a payload may lack or carry as null. A payload is a
\* record with the set `has` of the fields it carries with a value of the
\* right type; a field outside `has` is undefined or null.
Optional ==
  {"post_media", "likes", "comments", "likes_count", "comments_count",
   "has_liked", "is_owner"}

\* What the record holds in the place of a field the payload lacks.
Absent ==
  [post_media |-> <<>>, likes |-> <<>>, comments |-> <<>>, likes_count |-> 0,
   comments_count |-> 0, has_liked |-> FALSE, is_owner |-> FALSE]

\* Array.isArray(raw.f), typeof raw.f === "number", typeof raw.f === "boolean"
Carries(raw, f) == f \in raw.has

\* A hydration that counts the arrays and ignores the counters of the payload.
hydratePostCountsArrays(raw, userId) ==
  LET likes == IF Carries(raw, "likes") THEN raw.likes ELSE <<>>
      comments == IF Carries(raw, "comments") THEN raw.comments ELSE <<>>
      hasLiked == IF Carries(raw, "has_liked") THEN raw.has_liked
                  ELSE Some(likes, LAMBDA u : u = userId)
  IN [raw EXCEPT
        !.has = @ \cup Optional,
        !.post_media = IF Carries(raw, "post_media") THEN raw.post_media ELSE <<>>,
        !.likes = likes,
        !.comments = comments,
        !.likes_count = Len(likes),
        !.comments_count = Len(comments),
        !.has_liked = hasLiked,
        !.is_owner = (raw.user_id = userId)]

\* A hydration that writes the viewer's like into the likes array.
hydratePostAddsViewerLike(raw, userId) ==
  LET likes == IF Carries(raw, "likes") THEN raw.likes ELSE <<>>
      comments == IF Carries(raw, "comments") THEN raw.comments ELSE <<>>
      likesCount == IF Carries(raw, "likes_count") THEN raw.likes_count
                    ELSE Len(likes)
      commentsCount == IF Carries(raw, "comments_count") THEN raw.comments_count
                       ELSE Len(comments)
      hasLiked == IF Carries(raw, "has_liked") THEN raw.has_liked
                  ELSE Some(likes, LAMBDA u : u = userId)
  IN [raw EXCEPT
        !.has = @ \cup Optional,
        !.post_media = IF Carries(raw, "post_media") THEN raw.post_media ELSE <<>>,
        !.likes = IF hasLiked THEN Append(likes, userId) ELSE likes,
        !.comments = comments,
        !.likes_count = likesCount,
        !.comments_count = commentsCount,
        !.has_liked = hasLiked,
        !.is_owner = (raw.user_id = userId)]

\* A hydration that spreads post_media as the payload has it.
hydratePostKeepsMedia(raw, userId) ==
  LET likes == IF Carries(raw, "likes") THEN raw.likes ELSE <<>>
      comments == IF Carries(raw, "comments") THEN raw.comments ELSE <<>>
      likesCount == IF Carries(raw, "likes_count") THEN raw.likes_count
                    ELSE Len(likes)
      commentsCount == IF Carries(raw, "comments_count") THEN raw.comments_count
                       ELSE Len(comments)
      hasLiked == IF Carries(raw, "has_liked") THEN raw.has_liked
                  ELSE Some(likes, LAMBDA u : u = userId)
  IN [raw EXCEPT
        !.has = @ \cup (Optional \ {"post_media"}),
        !.likes = likes,
        !.comments = comments,
        !.likes_count = likesCount,
        !.comments_count = commentsCount,
        !.has_liked = hasLiked,
        !.is_owner = (raw.user_id = userId)]

\* hydratePost: the spread of raw with the seven hydrated fields over it.
hydratePost(raw, userId) ==
  LET likes == IF Carries(raw, "likes") THEN raw.likes ELSE <<>>
      comments == IF Carries(raw, "comments") THEN raw.comments ELSE <<>>
      likesCount == IF Carries(raw, "likes_count") THEN raw.likes_count
                    ELSE Len(likes)
      commentsCount == IF Carries(raw, "comments_count") THEN raw.comments_count
                       ELSE Len(comments)
      hasLiked == IF Carries(raw, "has_liked") THEN raw.has_liked
                  ELSE Some(likes, LAMBDA u : u = userId)
  IN [raw EXCEPT
        !.has = @ \cup Optional,
        !.post_media = IF Carries(raw, "post_media") THEN raw.post_media ELSE <<>>,
        !.likes = likes,
        !.comments = comments,
        !.likes_count = likesCount,
        !.comments_count = commentsCount,
        !.has_liked = hasLiked,
        !.is_owner = (raw.user_id = userId)]

\* The payloads hydratePost is applied to: every choice of the fields
\* carried, with likes of the viewer, of the other user or of nobody, and
\* counters that agree with the arrays or not.
RawPosts ==
  {r \in [id : {1}, user_id : {Viewer, Other}, has : SUBSET Optional,
          post_media : {<<>>, <<1>>},
          likes : {<<>>, <<Viewer>>, <<Other>>},
          comments : {<<>>, <<1>>},
          likes_count : 0..MaxCounter,
          comments_count : 0..MaxCounter,
          has_liked : BOOLEAN,
          is_owner : BOOLEAN] :
     \A f \in Optional \ r.has : r[f] = Absent[f]}

\* The ids hydratePost is called with: user?.id ?? null
ViewerIds == {Viewer, Other, NoUser}

\* The rows the server holds when the page is opened.
InitialRows ==
  InsertPost(InsertPost(<<>>, 1, Other, <<"h">>, "public", <<>>),
             2, Viewer, <<"h">>, "friends", <<>>)

\* ------------------------------------------------------------------ state
VARIABLES
  loadingAuth,     \* useAuth().loading
  user,            \* useAuth().user (its id, or NoUser)
  route,           \* where the router points
  posts,           \* useState<FeedPost[]>
  isFetching,
  fetchError,
  content,
  visibility,
  attachments,
  composerError,
  isPublishing,
  tasks,           \* the handler invocations, in the order they were made
  selects,         \* the handleFileSelect invocations, in order
  nextAttId,       \* the next id getRandomId hands out
  removed,         \* the ids removeAttachment has been called with
  srvPosts,        \* the rows of the posts table, newest first
  nextPostId,      \* the id the next inserted row gets
  otherOps,        \* requests made by the other session so far
  sessionGen,      \* which session object the auth context holds
  nextCommentId,   \* the id the next inserted comment gets
  norm             \* a payload, the viewer id and what hydratePost made of it

hook == <<posts, isFetching, fetchError, content, visibility, attachments,
          composerError, isPublishing>>
auth == <<loadingAuth, user, route, sessionGen>>
server == <<srvPosts, nextPostId, otherOps, nextCommentId>>
vars == <<loadingAuth, user, route, posts, isFetching, fetchError, content,
          visibility, attachments, composerError, isPublishing, tasks,
          selects, nextAttId, removed, srvPosts, nextPostId, otherOps, sessionGen,
          nextCommentId, norm>>

EmptyBody == [content |-> <<>>, visibility |-> "public", media |-> <<>>]
EmptySnap == [likes |-> <<>>, likes_count |-> 0, has_liked |-> FALSE]
NoComment == <<>>

\* The entries of a sequence of posts with the given id.
Shown(ps, postId) == {j \in 1..Len(ps) : ps[j].id = postId}

\* The like button of a rendered post passes (post.id, post.has_liked).
FromButton(postId, hasLiked) ==
  /\ ~isFetching
  /\ \E j \in Shown(posts, postId) : posts[j].has_liked = hasLiked

\* A handler invocation that has just sent its request.  `clicked` and
\* `pending` record how the call was made: with the arguments of the rendered
\* button, and which earlier invocations had not settled yet.
NewTask(kind, postId, hasLiked, body) ==
  [kind |-> kind,
   stage |-> "sent",
   as |-> user,
   postId |-> postId,
   hasLiked |-> hasLiked,
   body |-> body,
   reload |-> FALSE,
   ok |-> FALSE,
   msg |-> Null,
   posts |-> <<>>,
   snap |-> EmptySnap,
   comment |-> NoComment,
   gen |-> sessionGen,
   served |-> 0,
   clicked |-> FromButton(postId, hasLiked),
   pending |-> {i \in 1..Len(tasks) : tasks[i].stage # "done"}]

\* The request a task is waiting for: GET /api/posts once it is in loadPosts.
ReqKind(t) == IF t.reload THEN "load" ELSE t.kind

MaxOf(S) == IF S = {} THEN 0 ELSE CHOOSE m \in S : \A x \in S : x <= m

\* Position of the next request in the order the server handles them.
NextServed == 1 + MaxOf({tasks[i].served : i \in 1..Len(tasks)})

\* The page renders the composer and the list only for a resolved identity.
PageShown == ~loadingAuth /\ user # NoUser /\ route = "/feed"

\* The page before its first render has resolved anything.
InitPage ==
  /\ loadingAuth = TRUE
  /\ user = NoUser
  /\ route = "/feed"
  /\ posts = <<>>
  /\ isFetching = TRUE
  /\ fetchError = Null
  /\ content = <<>>
  /\ visibility = "public"
  /\ attachments = <<>>
  /\ composerError = Null
  /\ isPublishing = FALSE
  /\ tasks = <<>>
  /\ selects = <<>>
  /\ nextAttId = 1
  /\ removed = {}
  /\ srvPosts = InitialRows
  /\ nextPostId = 3
  /\ otherOps = 0
  /\ sessionGen = 0
  /\ nextCommentId = 1

NotHydrated == [step |-> "idle", userId |-> NoUser, raw |-> <<>>, once |-> <<>>,
                twice |-> <<>>]

Init == InitPage /\ norm = NotHydrated

\* A response with one post has arrived for a viewer id.
InitNormalize ==
  /\ InitPage
  /\ \E raw \in RawPosts, userId \in ViewerIds :
       norm = [step |-> "raw", userId |-> userId, raw |-> <<raw>>,
               once |-> <<>>, twice |-> <<>>]

\* hydratePost(post, currentUserId) on the post of the response.
Hydrate ==
  /\ norm.step = "raw"
  /\ norm' = [norm EXCEPT !.step = "once",
                          !.once = <<hydratePost(norm.raw[1], norm.userId)>>]
  /\ UNCHANGED <<auth, hook, tasks, selects, nextAttId, removed, server>>

\* hydratePost on a post that is already hydrated.
HydrateAgain ==
  /\ norm.step = "once"
  /\ norm' = [norm EXCEPT !.step = "twice",
                          !.twice = <<hydratePost(norm.once[1], norm.userId)>>]
  /\ UNCHANGED <<auth, hook, tasks, selects, nextAttId, removed, server>>

\* ------------------------------------------------------------------ failures
\* Handlers in which loadPosts has no catch of its own.
CatchesButLoad(kind) == kind # "load"

\* Handlers in which handleNewComment has no catch.
CatchesButComment(kind) == kind # "comment"

\* The try/catch blocks: every handler awaits its requests inside a try whose
\* catch handles whatever apiFetch or fetch throws.
Catches(kind) ==
  kind \in {"load", "publish", "like", "comment", "delete", "upload"}

\* One slot for the messages of every handler.
ErrorSlotShared(kind) == "fetchError"

\* Every catch writes the message to the slot of the composer.
ErrorSlotOfComposer(kind) == "composerError"

\* The slot the catch of a handler writes the message to.
ErrorSlot(kind) ==
  CASE kind = "load" -> "fetchError"
    [] kind = "delete" -> "fetchError"
    [] kind = "publish" -> "composerError"

\* The two message slots of the hook after the request of a handler of the
\* kind has settled with `ok`.
SlotsAfter(kind, ok, msg) ==
  LET written == IF ~ok /\ Catches(kind) THEN ErrorSlot(kind) ELSE "none"
  IN [fetchError |-> IF written = "fetchError" THEN msg ELSE fetchError,
      composerError |-> IF written = "composerError" THEN msg ELSE composerError]

\* Where a handler ends after its request has settled: an exception nothing
\* catches rejects the promise the handler returned.
Ending(kind, ok) == IF ok \/ Catches(kind) THEN "done" ELSE "rejected"

\* ------------------------------------------------------------------ load
\* loadPosts up to its await; `ts` is the task list with the call in it.
loadPostsStart(ts) ==
  /\ isFetching' = TRUE
  /\ fetchError' = Null
  /\ tasks' = ts

\* What useAuth() hands to the hook in one render.
AuthSnapshot == [loading |-> loadingAuth, user |-> user, gen |-> sessionGen]

\* A load effect keyed on the user instead of the loading flag.
LoadEffectOnUser(before, after) ==
  after.user # NoUser /\ before.gen # after.gen

\* A load effect that also depends on the user object.
LoadEffectOnSession(before, after) ==
  (before.loading # after.loading \/ before.gen # after.gen) /\ ~after.loading

\* The load effect: its dependencies are loadPosts (created once) and
\* loadingAuth, and its body calls loadPosts when loadingAuth is false.
LoadEffectFires(before, after) ==
  before.loading # after.loading /\ ~after.loading

\* The redirect effect: no identity once auth has resolved.
RedirectEffect(after) ==
  IF ~after.loading /\ after.user = NoUser THEN "/login" ELSE route

\* The hook renders with a new auth context; its two effects run.
AuthRender(after) ==
  /\ loadingAuth' = after.loading
  /\ user' = after.user
  /\ sessionGen' = after.gen
  /\ route' = RedirectEffect(after)
  /\ IF LoadEffectFires(AuthSnapshot, after)
     THEN loadPostsStart(Append(tasks,
            [NewTask("load", 0, FALSE, EmptyBody) EXCEPT !.as = after.user,
                                                         !.gen = after.gen]))
     ELSE UNCHANGED <<isFetching, fetchError, tasks>>
  /\ UNCHANGED <<posts, content, visibility, attachments, composerError,
                 isPublishing, selects, nextAttId, removed, norm, server>>

\* The auth provider resolves the session: setSession and setLoading(false).
AuthResolve(u) ==
  /\ loadingAuth
  /\ AuthRender([loading |-> FALSE, user |-> u,
                 gen |-> IF u = user THEN sessionGen ELSE sessionGen + 1])

\* setSession: getSession delivers the session before the profile is loaded,
\* or onAuthStateChange reports a refreshed token, a sign-in or a sign-out.
SessionChange(u) ==
  /\ route = "/feed"
  /\ sessionGen < MaxSessionChanges
  /\ AuthRender([loading |-> loadingAuth, user |-> u, gen |-> sessionGen + 1])

\* A load that keeps what is already shown.
LoadKeepsLocal(ps, t) == IF ps = <<>> THEN t.posts ELSE ps

\* A load that keeps the entries it already shows and takes only new ones.
LoadMergesLocal(ps, t) ==
  [j \in 1..Len(t.posts) |->
     IF j <= Len(ps) /\ ps[j].id = t.posts[j].id THEN ps[j] ELSE t.posts[j]]

\* loadPosts after its await: the response replaces the sequence.
LoadApply(ps, t) == t.posts

LoadSettle(i) ==
  LET t == tasks[i] IN
  /\ t.stage = "resp"
  /\ ReqKind(t) = "load"
  /\ IF t.ok THEN posts' = LoadApply(posts, t) ELSE UNCHANGED posts
  /\ fetchError' = SlotsAfter("load", t.ok, t.msg).fetchError
  /\ composerError' = SlotsAfter("load", t.ok, t.msg).composerError
  /\ isFetching' = FALSE
  /\ tasks' = [tasks EXCEPT ![i].stage = Ending("load", t.ok), ![i].posts = <<>>]
  /\ UNCHANGED <<auth, content, visibility, attachments,
                 isPublishing, selects, nextAttId, removed, norm, server>>

\* ------------------------------------------------------------------ like
\* A flip that always counts up, whatever the direction.
OptimisticFlipCountsUp(ps, postId, hasLiked) ==
  Map(ps, LAMBDA post :
    IF post.id = postId
    THEN [post EXCEPT !.has_liked = ~hasLiked,
                      !.likes_count = post.likes_count + 1]
    ELSE post)

\* The optimistic flip of handleToggleLike.
OptimisticFlip(ps, postId, hasLiked) ==
  Map(ps, LAMBDA post :
    IF post.id = postId
    THEN [post EXCEPT !.has_liked = ~hasLiked,
                      !.likes_count = post.likes_count + (IF hasLiked THEN -1 ELSE 1)]
    ELSE post)

\* A reconciliation that trusts the optimistic counter.
ReconcileKeepsCount(ps, postId, snap) ==
  Map(ps, LAMBDA post :
    IF post.id = postId
    THEN [post EXCEPT !.has_liked = snap.has_liked, !.likes = snap.likes]
    ELSE post)

\* A reconciliation that is dropped while a newer toggle of the same post is
\* still waiting for its response.
ReconcileUnlessNewerToggle(ps, postId, snap) ==
  IF \E j \in 1..Len(tasks) :
       /\ tasks[j].kind = "like" /\ ~tasks[j].reload
       /\ tasks[j].postId = postId /\ tasks[j].stage = "sent"
  THEN ps
  ELSE Map(ps, LAMBDA post :
         IF post.id = postId
         THEN [post EXCEPT !.has_liked = snap.has_liked,
                           !.likes_count = snap.likes_count,
                           !.likes = snap.likes]
         ELSE post)

\* The reconciliation of handleToggleLike with the server's snapshot.
Reconcile(ps, postId, snap) ==
  Map(ps, LAMBDA post :
    IF post.id = postId
    THEN [post EXCEPT !.has_liked = snap.has_liked,
                      !.likes_count = snap.likes_count,
                      !.likes = snap.likes]
    ELSE post)

\* handleToggleLike up to its await.
ToggleLike(postId, hasLiked) ==
  /\ PageShown
  /\ Len(tasks) < MaxOps
  /\ posts' = OptimisticFlip(posts, postId, hasLiked)
  /\ tasks' = Append(tasks, NewTask("like", postId, hasLiked, EmptyBody))
  /\ UNCHANGED <<auth, isFetching, fetchError, content, visibility, attachments,
                 composerError, isPublishing, selects, nextAttId, removed, norm, server>>

\* The catch of handleToggleLike: loadPosts is called and awaited.
ReloadStart(i) ==
  loadPostsStart([tasks EXCEPT ![i].stage = "sent", ![i].reload = TRUE,
                               ![i].as = user])

\* handleToggleLike after its await.
LikeSettle(i) ==
  LET t == tasks[i] IN
  /\ t.stage = "resp"
  /\ ReqKind(t) = "like"
  /\ IF t.ok
     THEN /\ posts' = Reconcile(posts, t.postId, t.snap)
          /\ tasks' = [tasks EXCEPT ![i].stage = "done", ![i].snap = EmptySnap]
          /\ UNCHANGED <<isFetching, fetchError>>
     ELSE IF Catches("like")
     THEN /\ ReloadStart(i)
          /\ UNCHANGED posts
     ELSE /\ tasks' = [tasks EXCEPT ![i].stage = Ending("like", FALSE)]
          /\ UNCHANGED <<posts, isFetching, fetchError>>
  /\ UNCHANGED <<auth, content, visibility, attachments, composerError,
                 isPublishing, selects, nextAttId, removed, norm, server>>

\* ------------------------------------------------------------------ comment
\* A guard that only refuses the empty text.
BlankTextUntrimmed(text) == text = <<>>

\* The guard of handleNewComment: !text.trim()
BlankText(text) == Trim(text) = <<>>

\* handleNewComment up to its await, or to its early return.
NewComment(postId, text) ==
  /\ PageShown
  /\ Len(tasks) < MaxOps
  /\ tasks' = Append(tasks,
       [NewTask("comment", postId, FALSE,
                [content |-> Trim(text), visibility |-> "public", media |-> <<>>])
          EXCEPT !.stage = IF BlankText(text) THEN "done" ELSE "sent"])
  /\ UNCHANGED <<auth, hook, selects, nextAttId, removed, norm, server>>

\* A comment that goes in front of the comments shown.
AppendCommentInFront(ps, postId, comment) ==
  Map(ps, LAMBDA post :
    IF post.id = postId
    THEN [post EXCEPT !.comments = <<comment>> \o post.comments,
                      !.comments_count = post.comments_count + 1]
    ELSE post)

\* The update of handleNewComment on a confirmed comment.
AppendComment(ps, postId, comment) ==
  Map(ps, LAMBDA post :
    IF post.id = postId
    THEN [post EXCEPT !.comments = Append(post.comments, comment),
                      !.comments_count = post.comments_count + 1]
    ELSE post)

\* handleNewComment after its await.
CommentSettle(i) ==
  LET t == tasks[i] IN
  /\ t.stage = "resp"
  /\ ReqKind(t) = "comment"
  /\ IF t.ok
     THEN /\ posts' = AppendComment(posts, t.postId, t.comment[1])
          /\ tasks' = [tasks EXCEPT ![i].stage = "done", ![i].comment = NoComment]
          /\ UNCHANGED <<isFetching, fetchError>>
     ELSE IF Catches("comment")
     THEN /\ ReloadStart(i)
          /\ UNCHANGED posts
     ELSE /\ tasks' = [tasks EXCEPT ![i].stage = Ending("comment", FALSE)]
          /\ UNCHANGED <<posts, isFetching, fetchError>>
  /\ UNCHANGED <<auth, content, visibility, attachments, composerError,
                 isPublishing, selects, nextAttId, removed, norm, server>>

\* ------------------------------------------------------------------ delete
\* handleDeletePost up to its await.
DeletePost(postId) ==
  /\ PageShown
  /\ Len(tasks) < MaxOps
  /\ tasks' = Append(tasks, NewTask("delete", postId, FALSE, EmptyBody))
  /\ UNCHANGED <<auth, hook, selects, nextAttId, removed, norm, server>>

\* A removal that drops the first post shown, whatever its id.
RemoveFirstPost(ps, postId) == IF ps = <<>> THEN ps ELSE Tail(ps)

\* The update of handleDeletePost on a confirmed delete.
RemovePost(ps, postId) == Filter(ps, LAMBDA post : post.id # postId)

\* handleDeletePost after its await.
DeleteSettle(i) ==
  LET t == tasks[i] IN
  /\ t.stage = "resp"
  /\ ReqKind(t) = "delete"
  /\ IF t.ok THEN posts' = RemovePost(posts, t.postId) ELSE UNCHANGED posts
  /\ fetchError' = SlotsAfter("delete", t.ok, t.msg).fetchError
  /\ composerError' = SlotsAfter("delete", t.ok, t.msg).composerError
  /\ tasks' = [tasks EXCEPT ![i].stage = Ending("delete", t.ok)]
  /\ UNCHANGED <<auth, isFetching, content, visibility, attachments,
                 isPublishing, selects, nextAttId, removed, norm, server>>

\* ------------------------------------------------------------------ composer
setContent(text) ==
  /\ PageShown
  /\ text # content
  /\ content' = text
  /\ UNCHANGED <<auth, posts, isFetching, fetchError, visibility, attachments,
                 composerError, isPublishing, tasks, selects, nextAttId, removed, norm, server>>

setVisibility(v) ==
  /\ PageShown
  /\ v # visibility
  /\ visibility' = v
  /\ UNCHANGED <<auth, posts, isFetching, fetchError, content, attachments,
                 composerError, isPublishing, tasks, selects, nextAttId, removed, norm, server>>

\* ------------------------------------------------------------------ attachments
NoRemote == <<>>

\* An upload that stores no descriptor with the attachment.
RemoteMissing(id) == NoRemote

\* The remote descriptor of an uploaded file; the file stands for its own
\* url, and its type and size come from the File object.
RemoteOf(id) ==
  <<[file_url |-> id, file_type |-> "image/png", file_size |-> id,
     storage_bucket |-> "public"]>>

NewAttachment(id) ==
  [id |-> id, status |-> "uploading", remote |-> NoRemote, error |-> Null]

\* One attachment object shared by the files of a selection.
SettleAll(atts, status, msg) ==
  [j \in 1..Len(atts) |->
     [atts[j] EXCEPT !.status = status,
                     !.remote = IF status = "uploaded" THEN RemoteOf(atts[j].id)
                                ELSE NoRemote,
                     !.error = IF status = "error" THEN msg ELSE Null]]

\* The current file (the last one pushed) reaches its terminal status.
Settle(atts, status, msg) ==
  [atts EXCEPT
     ![Len(atts)].status = status,
     ![Len(atts)].remote = IF status = "uploaded"
                           THEN RemoteOf(atts[Len(atts)].id)
                           ELSE NoRemote,
     ![Len(atts)].error = IF status = "error" THEN msg ELSE Null]

\* The loop of handleFileSelect moves on after its current file has reached
\* `status`: the next file's request is sent, or the batch is appended.
SelectAdvance(k, status, msg) ==
  LET b == selects[k]
      cur == Len(b.newAttachments)
      settled == Settle(b.newAttachments, status, msg)
  IN IF cur < b.files
     THEN /\ selects' = [selects EXCEPT
                           ![k].step = "url",
                           ![k].newAttachments = Append(settled, NewAttachment(nextAttId))]
          /\ nextAttId' = nextAttId + 1
          /\ UNCHANGED attachments
     ELSE /\ selects' = [selects EXCEPT ![k].step = "done", ![k].newAttachments = <<>>]
          /\ attachments' = attachments \o settled
          /\ UNCHANGED nextAttId

\* The try/catch around the two requests of a file: the catch marks the
\* file and the loop goes on; an exception nothing catches ends the handler
\* before setAttachments.
SelectCatch(k, status, msg) ==
  IF Ending("upload", status # "error") = "rejected"
  THEN /\ selects' = [selects EXCEPT ![k].step = "rejected"]
       /\ UNCHANGED <<attachments, nextAttId>>
  ELSE SelectAdvance(k, status, msg)

\* handleFileSelect up to its first await.
FileSelect(n) ==
  /\ PageShown
  /\ Len(selects) < MaxSelects
  /\ selects' = Append(selects, [files |-> n, step |-> "url",
                                 newAttachments |-> <<NewAttachment(nextAttId)>>])
  /\ nextAttId' = nextAttId + 1
  /\ UNCHANGED <<auth, hook, tasks, removed, norm, server>>

\* The upload-url request of the current file settles.
UploadUrlSettle(k, ok) ==
  /\ selects[k].step = "url"
  /\ IF ok
     THEN /\ selects' = [selects EXCEPT ![k].step = "put"]
          /\ UNCHANGED <<attachments, nextAttId>>
     ELSE SelectCatch(k, "error", TransportMsg)
  /\ UNCHANGED <<auth, posts, isFetching, fetchError, content, visibility,
                 composerError, isPublishing, tasks, removed, norm, server>>

\* A transfer whose response is not looked at.
PutStatusUnchecked(ok) == "uploaded"

\* if (!uploadResponse.ok) throw: the status the PUT leads to.
PutStatus(ok) == IF ok THEN "uploaded" ELSE "error"

\* The PUT of the current file settles.
PutSettle(k, ok) ==
  /\ selects[k].step = "put"
  /\ SelectCatch(k, PutStatus(ok), UploadFailedMsg)
  /\ UNCHANGED <<auth, posts, isFetching, fetchError, content, visibility,
                 composerError, isPublishing, tasks, removed, norm, server>>

removeAttachment(id) ==
  /\ PageShown
  /\ attachments' = Filter(attachments, LAMBDA a : a.id # id)
  /\ removed' = removed \cup {id}
  /\ UNCHANGED <<auth, posts, isFetching, fetchError, content, visibility,
                 composerError, isPublishing, tasks, selects, nextAttId, norm,
                 server>>

\* The object URLs made for previews: URL.createObjectURL runs once for every
\* attachment created.
previewUrls == 1..(nextAttId - 1)

\* The object URLs released: the hook and the page never call
\* URL.revokeObjectURL.
revokedUrls == {}

\* ------------------------------------------------------------------ publish
\* The media of the request: the remote descriptors, in draft order.
MediaOf(atts) ==
  LET ready == Filter(atts, LAMBDA a : a.remote # NoRemote)
  IN Map(ready, LAMBDA a : a.remote[1])

\* A validation that only looks for uploads still running.
IncompleteWhileUploading(atts) == Some(atts, LAMBDA a : a.status = "uploading")

\* The first validation of handlePublish.
Incomplete(atts) == Some(atts, LAMBDA a : a.status # "uploaded")

\* A validation that forgets to trim the text.
NothingToPostUntrimmed(text, atts) == text = <<>> /\ Len(atts) = 0

\* The second validation of handlePublish.
NothingToPost(text, atts) == Trim(text) = <<>> /\ Len(atts) = 0

\* handlePublish up to its await, or to the return of a failed validation;
\* `limit` bounds the requests the calls may send in all.
PublishCall(limit) ==
  /\ PageShown
  /\ IF Incomplete(attachments)
     THEN /\ composerError' = MediaNotReadyMsg
          /\ UNCHANGED <<isPublishing, tasks>>
     ELSE IF NothingToPost(content, attachments)
     THEN /\ composerError' = EmptyPostMsg
          /\ UNCHANGED <<isPublishing, tasks>>
     ELSE /\ Len(tasks) < MaxOps
          /\ Cardinality({i \in 1..Len(tasks) : tasks[i].kind = "publish"}) < limit
          /\ composerError' = Null
          /\ isPublishing' = TRUE
          /\ tasks' = Append(tasks,
               NewTask("publish", 0, FALSE,
                       [content |-> Trim(content),
                        visibility |-> visibility,
                        media |-> MediaOf(attachments)]))
  /\ UNCHANGED <<auth, posts, isFetching, fetchError, content, visibility,
                 attachments, selects, nextAttId, removed, norm, server>>

Publish == PublishCall(MaxPublishes)

\* A new post that goes behind the posts already shown.
PrependAtEnd(post, ps) == ps \o <<post>>

\* The new post goes in front of the sequence.
Prepend(post, ps) == <<post>> \o ps

\* A composer that is reset whatever the outcome.
ComposerAlwaysReset(ok, draft) ==
  [content |-> <<>>, attachments |-> <<>>, visibility |-> "public"]

\* The draft after the request of handlePublish has settled: reset on success,
\* untouched on failure.
ComposerAfterPublish(ok, draft) ==
  IF ok
  THEN [content |-> <<>>, attachments |-> <<>>, visibility |-> "public"]
  ELSE draft

\* A flag that is cleared at the end of the try block only.
PublishingUnlessFailed(ok) == ~ok

\* finally { setIsPublishing(false) }: the flag after the request has settled.
PublishingAfter(ok) == FALSE

\* handlePublish after its await.
PublishSettle(i) ==
  LET t == tasks[i]
      draft == ComposerAfterPublish(t.ok,
                 [content |-> content, attachments |-> attachments,
                  visibility |-> visibility])
  IN
  /\ t.stage = "resp"
  /\ ReqKind(t) = "publish"
  /\ IF t.ok THEN posts' = Prepend(t.posts[1], posts) ELSE UNCHANGED posts
  /\ fetchError' = SlotsAfter("publish", t.ok, t.msg).fetchError
  /\ composerError' = SlotsAfter("publish", t.ok, t.msg).composerError
  /\ content' = draft.content
  /\ attachments' = draft.attachments
  /\ visibility' = draft.visibility
  /\ isPublishing' = PublishingAfter(t.ok)
  /\ tasks' = [tasks EXCEPT ![i].stage = Ending("publish", t.ok),
                            ![i].posts = <<>>, ![i].body = EmptyBody]
  /\ UNCHANGED <<auth, isFetching, selects, nextAttId, removed, norm, server>>

\* ------------------------------------------------------------------ network
\* The response of a request that failed.
Failed(t, msg) ==
  [t EXCEPT !.stage = "resp", !.ok = FALSE, !.msg = msg, !.served = NextServed]

\* The response of a request that succeeded.
Answered(t, ps, snap) ==
  [t EXCEPT !.stage = "resp", !.ok = TRUE, !.msg = Null, !.posts = ps,
            !.snap = snap, !.served = NextServed]

\* GET /api/posts
ServeLoad(i) ==
  LET t == tasks[i] IN
  /\ tasks' = [tasks EXCEPT ![i] =
       IF t.as = NoUser THEN Failed(t, UnauthorizedMsg)
       ELSE Answered(t, FeedPage(srvPosts, t.as), EmptySnap)]
  /\ UNCHANGED server

\* POST and DELETE /api/posts/{id}/likes
ServeLike(i) ==
  LET t == tasks[i]
      rows == IF t.hasLiked THEN DeleteLike(srvPosts, t.postId, t.as)
              ELSE UpsertLike(srvPosts, t.postId, t.as)
      rejected == t.as = NoUser \/ (~t.hasLiked /\ ~PostExists(srvPosts, t.postId))
  IN
  /\ srvPosts' = IF rejected THEN srvPosts ELSE rows
  /\ tasks' = [tasks EXCEPT ![i] =
       IF t.as = NoUser THEN Failed(t, UnauthorizedMsg)
       ELSE IF rejected THEN Failed(t, TransportMsg)
       ELSE Answered(t, <<>>, fetchLikesSnapshot(rows, t.postId, t.as))]
  /\ UNCHANGED <<nextPostId, otherOps, nextCommentId>>

\* POST /api/posts
ServePublish(i) ==
  LET t == tasks[i]
      text == Trim(t.body.content)
      bad == text = <<>> /\ Len(t.body.media) = 0
      rows == InsertPost(srvPosts, nextPostId, t.as, text, t.body.visibility,
                         t.body.media)
  IN
  /\ IF bad \/ t.as = NoUser
     THEN /\ tasks' = [tasks EXCEPT ![i] =
                 Failed(t, IF bad THEN BadPostMsg ELSE UnauthorizedMsg)]
          /\ UNCHANGED <<srvPosts, nextPostId>>
     ELSE /\ srvPosts' = rows
          /\ nextPostId' = nextPostId + 1
          /\ tasks' = [tasks EXCEPT ![i] =
                 Answered(t, <<toFeedPost(rows[1], t.as)>>, EmptySnap)]
  /\ UNCHANGED <<otherOps, nextCommentId>>

\* POST /api/posts/{id}/comments
ServeComment(i) ==
  LET t == tasks[i]
      text == Trim(t.body.content)
      rows == InsertComment(srvPosts, t.postId, nextCommentId, t.as, text)
      rejected == t.as = NoUser \/ text = <<>> \/ ~PostExists(srvPosts, t.postId)
      row == CHOOSE c \in {rows[j].comments[Len(rows[j].comments)] :
                             j \in Shown(rows, t.postId)} : TRUE
  IN
  /\ IF rejected
     THEN /\ tasks' = [tasks EXCEPT ![i] =
                 Failed(t, IF text = <<>> THEN BadCommentMsg
                           ELSE IF t.as = NoUser THEN UnauthorizedMsg
                           ELSE TransportMsg)]
          /\ UNCHANGED <<srvPosts, nextCommentId>>
     ELSE /\ srvPosts' = rows
          /\ nextCommentId' = nextCommentId + 1
          /\ tasks' = [tasks EXCEPT ![i] =
                 [Answered(t, <<>>, EmptySnap) EXCEPT !.comment = <<toFeedComment(row)>>]]
  /\ UNCHANGED <<nextPostId, otherOps>>

\* DELETE /api/posts/{id}
ServeDelete(i) ==
  LET t == tasks[i] IN
  /\ IF t.as = NoUser
     THEN /\ tasks' = [tasks EXCEPT ![i] = Failed(t, UnauthorizedMsg)]
          /\ UNCHANGED srvPosts
     ELSE /\ srvPosts' = DeletePostRow(srvPosts, t.postId, t.as)
          /\ tasks' = [tasks EXCEPT ![i] = Answered(t, <<>>, EmptySnap)]
  /\ UNCHANGED <<nextPostId, otherOps, nextCommentId>>

\* The server handles the request of task i.
Serve(i) ==
  /\ tasks[i].stage = "sent"
  /\ CASE ReqKind(tasks[i]) = "load" -> ServeLoad(i)
       [] ReqKind(tasks[i]) = "like" -> ServeLike(i)
       [] ReqKind(tasks[i]) = "publish" -> ServePublish(i)
       [] ReqKind(tasks[i]) = "comment" -> ServeComment(i)
       [] ReqKind(tasks[i]) = "delete" -> ServeDelete(i)
  /\ UNCHANGED <<auth, hook, selects, nextAttId, removed, norm>>

\* The request of task i fails in transit or in the handler: nothing is stored.
Fail(i) ==
  /\ tasks[i].stage = "sent"
  /\ tasks' = [tasks EXCEPT ![i] = Failed(tasks[i], TransportMsg)]
  /\ UNCHANGED <<auth, hook, selects, nextAttId, removed, norm, server>>

\* The other session likes or unlikes a post.
OtherToggleLike(postId) ==
  /\ otherOps < MaxOtherOps
  /\ PostExists(srvPosts, postId)
  /\ otherOps' = otherOps + 1
  /\ srvPosts' =
       IF fetchLikesSnapshot(srvPosts, postId, Other).has_liked
       THEN DeleteLike(srvPosts, postId, Other)
       ELSE UpsertLike(srvPosts, postId, Other)
  /\ UNCHANGED <<auth, hook, tasks, selects, nextAttId, removed, norm, nextPostId,
                 nextCommentId>>

\* ------------------------------------------------------------------ system
PostIds == 1..(nextPostId - 1)
TaskIds == 1..Len(tasks)
SelectIds == 1..Len(selects)

\* The feed store: loading, likes and the other session.
NextFeed ==
  \/ \E u \in {Viewer, NoUser} : AuthResolve(u)
  \/ \E i \in TaskIds : Serve(i)
  \/ \E i \in TaskIds : Fail(i)
  \/ \E i \in TaskIds : LoadSettle(i)
  \/ \E p \in PostIds, b \in BOOLEAN : ToggleLike(p, b)
  \/ \E i \in TaskIds : LikeSettle(i)
  \/ \E p \in PostIds : OtherToggleLike(p)

SpecFeed == Init /\ [][NextFeed]_vars

\* The composer: the draft, the uploads and publishing.
NextComposer ==
  \/ \E u \in {Viewer, NoUser} : AuthResolve(u)
  \/ \E i \in TaskIds : Serve(i)
  \/ \E i \in TaskIds : Fail(i)
  \/ \E i \in TaskIds : LoadSettle(i)
  \/ \E text \in DraftTexts : setContent(text)
  \/ \E v \in Visibilities : setVisibility(v)
  \/ \E n \in 1..MaxFiles : FileSelect(n)
  \/ \E k \in SelectIds, ok \in BOOLEAN : UploadUrlSettle(k, ok)
  \/ \E k \in SelectIds, ok \in BOOLEAN : PutSettle(k, ok)
  \/ \E a \in 1..(nextAttId - 1) : removeAttachment(a)
  \/ Publish
  \/ \E i \in TaskIds : PublishSettle(i)

SpecComposer == Init /\ [][NextComposer]_vars

\* Texts a comment is submitted with.
CommentTexts == {<<>>, <<" ">>, <<"h">>, <<" ", "h">>}

\* The threads: comments and deleting posts.
NextThread ==
  \/ \E u \in {Viewer, NoUser} : AuthResolve(u)
  \/ \E i \in TaskIds : Serve(i)
  \/ \E i \in TaskIds : Fail(i)
  \/ \E i \in TaskIds : LoadSettle(i)
  \/ \E p \in PostIds, text \in CommentTexts : NewComment(p, text)
  \/ \E i \in TaskIds : CommentSettle(i)
  \/ \E p \in PostIds : DeletePost(p)
  \/ \E i \in TaskIds : DeleteSettle(i)

SpecThread == Init /\ [][NextThread]_vars

\* The session gate: the auth context changing under the mounted hook.
NextAuth ==
  \/ \E u \in {Viewer, NoUser} : AuthResolve(u)
  \/ \E u \in {Viewer, Other, NoUser} : SessionChange(u)
  \/ \E i \in TaskIds : Serve(i)
  \/ \E i \in TaskIds : Fail(i)
  \/ \E i \in TaskIds : LoadSettle(i)
  \/ \E text \in DraftTexts : setContent(text)
  \/ \E p \in PostIds : OtherToggleLike(p)

SpecAuth == Init /\ [][NextAuth]_vars

\* Every operation of the hook once, on fixed inputs, with every request free
\* to fail: a like of post 1, a comment on post 1, the delete of post 2, one
\* file and a publish of that file.
NextErrors ==
  \/ AuthResolve(Viewer)
  \/ \E i \in TaskIds : Serve(i)
  \/ \E i \in TaskIds : Fail(i)
  \/ \E i \in TaskIds : LoadSettle(i)
  \/ ToggleLike(1, FALSE)
  \/ \E i \in TaskIds : LikeSettle(i)
  \/ NewComment(1, <<"h">>)
  \/ \E i \in TaskIds : CommentSettle(i)
  \/ DeletePost(2)
  \/ \E i \in TaskIds : DeleteSettle(i)
  \/ FileSelect(1)
  \/ \E k \in SelectIds, ok \in BOOLEAN : UploadUrlSettle(k, ok)
  \/ \E k \in SelectIds, ok \in BOOLEAN : PutSettle(k, ok)
  \/ Publish
  \/ \E i \in TaskIds : PublishSettle(i)

SpecErrors == Init /\ [][NextErrors]_vars

\* The operations that write a message: loads, the delete of post 2, one
\* file and a publish of the text "h" or of the file.
NextSlots ==
  \/ AuthResolve(Viewer)
  \/ \E i \in TaskIds : Serve(i)
  \/ \E i \in TaskIds : Fail(i)
  \/ \E i \in TaskIds : LoadSettle(i)
  \/ DeletePost(2)
  \/ \E i \in TaskIds : DeleteSettle(i)
  \/ setContent(<<"h">>)
  \/ FileSelect(1)
  \/ \E k \in SelectIds, ok \in BOOLEAN : UploadUrlSettle(k, ok)
  \/ \E k \in SelectIds, ok \in BOOLEAN : PutSettle(k, ok)
  \/ Publish
  \/ \E i \in TaskIds : PublishSettle(i)

SpecSlots == Init /\ [][NextSlots]_vars

\* The composer with handlePublish free to be called again while a request
\* of it is in flight.
NextPublish ==
  \/ AuthResolve(Viewer)
  \/ \E i \in TaskIds : Serve(i)
  \/ \E i \in TaskIds : Fail(i)
  \/ \E i \in TaskIds : LoadSettle(i)
  \/ \E text \in {<<>>, <<"h">>} : setContent(text)
  \/ PublishCall(MaxPublishes + 1)
  \/ \E i \in TaskIds : PublishSettle(i)

SpecPublish == Init /\ [][NextPublish]_vars

\* The transport answers every request and the continuation of an answered
\* handlePublish runs.
FairPublish ==
  /\ SpecPublish
  /\ WF_vars(\E i \in TaskIds : Serve(i) \/ Fail(i))
  /\ WF_vars(\E i \in TaskIds : PublishSettle(i))

\* hydratePost on its own: applied to a payload and to its own result.
NextNormalize == Hydrate \/ HydrateAgain

SpecNormalize == InitNormalize /\ [][NextNormalize]_vars

Next ==
  \/ NextFeed \/ NextComposer \/ NextThread \/ NextAuth
  \/ NextErrors \/ NextSlots \/ NextPublish \/ NextNormalize

Spec == Init /\ [][Next]_vars

\* ------------------------------------------------------------------ steps
\* A step in which a handler of the given kind sends its request.
Issued(kind) ==
  /\ Len(tasks') = Len(tasks) + 1
  /\ tasks'[Len(tasks')].kind = kind

\* A step in which the continuation of task i runs on its response.
Resumed(i, kind, ok) ==
  /\ tasks[i].stage = "resp"
  /\ ReqKind(tasks[i]) = kind
  /\ tasks[i].ok = ok
  /\ tasks'[i].stage # "resp"

AllDone == \A i \in TaskIds : tasks[i].stage = "done"

\* ------------------------------------------------------------------ claims

\* C1: in the step that sends the request of toggleLike(postId, currentlyLiked)
\* the target post already shows has_liked = ~currentlyLiked and a likes_count
\* one above (like) or one below (unlike) the value before the call.
C1_OptimisticBeforeRequest ==
  [][Issued("like") =>
       LET t == tasks'[Len(tasks')] IN
       /\ Len(posts') = Len(posts)
       /\ \A j \in Shown(posts, t.postId) :
            /\ posts'[j].id = t.postId
            /\ posts'[j].has_liked = ~t.hasLiked
            /\ posts'[j].likes_count =
                 posts[j].likes_count + (IF t.hasLiked THEN -1 ELSE 1)]_vars

\* An unlike request is on its way and the post shows the flipped state.
C1_Witness ==
  \E i \in TaskIds :
    /\ tasks[i].kind = "like" /\ tasks[i].stage = "sent" /\ ~tasks[i].reload
    /\ tasks[i].hasLiked
    /\ \E j \in Shown(posts, tasks[i].postId) :
         ~posts[j].has_liked /\ posts[j].likes_count = 0

\* C2: when the request of toggleLike succeeds, has_liked, likes_count and
\* likes of the target post become the values of the response, whatever the
\* post showed before.
C2_ReconcileWithServer ==
  [][\A i \in TaskIds : Resumed(i, "like", TRUE) =>
       LET t == tasks[i] IN
       /\ Len(posts') = Len(posts)
       /\ \A j \in Shown(posts, t.postId) :
            /\ posts'[j].id = t.postId
            /\ posts'[j].has_liked = t.snap.has_liked
            /\ posts'[j].likes_count = t.snap.likes_count
            /\ posts'[j].likes = t.snap.likes]_vars

\* A like succeeded and the post shows the server's count of two, the like of
\* the other session included.
C2_Witness ==
  \E i \in TaskIds :
    /\ tasks[i].kind = "like" /\ tasks[i].stage = "done" /\ ~tasks[i].reload
    /\ ~tasks[i].hasLiked
    /\ \E j \in Shown(posts, tasks[i].postId) :
         /\ posts[j].likes_count = 2
         /\ posts[j].has_liked
         /\ posts[j].likes = <<Viewer, Other>>

\* C3: after a toggleLike request has failed and the load() issued for it has
\* succeeded, with no operation in flight, the local sequence equals the
\* server feed (stated for runs in which no other session acts and every
\* toggleLike call came from the like button of a rendered post).
C3_ReloadedEqualsServer ==
  ( /\ otherOps = 0
    /\ AllDone
    /\ \A i \in TaskIds : tasks[i].kind = "like" => tasks[i].clicked
    /\ \E i \in TaskIds : tasks[i].kind = "like" /\ tasks[i].reload /\ tasks[i].ok )
  => posts = FeedPage(srvPosts, Viewer)

\* C4: a like and then an unlike of the same post, the unlike issued before
\* the like's response was applied, the post not liked before and shown when
\* the like was issued, the server handling the two requests in issue order:
\* once both responses are applied the post shows has_liked = FALSE.
C4_LikeThenUnlikeEndsUnliked ==
  \A i, j \in TaskIds :
    ( /\ i < j
      /\ tasks[i].kind = "like" /\ tasks[j].kind = "like"
      /\ tasks[i].postId = tasks[j].postId
      /\ ~tasks[i].hasLiked /\ tasks[j].hasLiked
      /\ tasks[i].clicked /\ tasks[j].clicked
      /\ tasks[i].pending = {} /\ tasks[j].pending = {i}
      /\ ~tasks[i].reload /\ ~tasks[j].reload
      /\ tasks[i].served < tasks[j].served
      /\ Len(tasks) = j
      /\ AllDone ) =>
    \A k \in Shown(posts, tasks[i].postId) : ~posts[k].has_liked

\* C5: when a publish request succeeds the server-returned post becomes the
\* first element of the sequence, the posts shown before follow in unchanged
\* order, and the composer is reset: no text, no attachments, visibility
\* public, isPublishing false.
C5_PublishSuccess ==
  [][\A i \in TaskIds : Resumed(i, "publish", TRUE) =>
       /\ posts' = <<tasks[i].posts[1]>> \o posts
       /\ content' = <<>>
       /\ attachments' = <<>>
       /\ visibility' = "public"
       /\ ~isPublishing']_vars

\* A post with media, published as private, stands before the two posts that
\* were loaded, and the composer is back to its initial state.
C5_Witness ==
  /\ \E i \in TaskIds :
       tasks[i].kind = "publish" /\ tasks[i].stage = "done" /\ tasks[i].ok
  /\ Len(posts) = 3
  /\ posts[1].id = 3 /\ posts[2].id = 2 /\ posts[3].id = 1
  /\ posts[1].post_media # <<>>
  /\ posts[1].visibility = "private"
  /\ content = <<>> /\ attachments = <<>> /\ visibility = "public"
  /\ ~isPublishing

\* C6: publish is not optimistic.  The step that sends the request and the
\* step that receives its failure leave the post sequence as it is; on failure
\* the draft text, visibility and attachments keep their values, the composer
\* error is set and isPublishing is false again.
C6_PublishNotOptimistic ==
  [][/\ Issued("publish") => posts' = posts
     /\ \A i \in TaskIds : Resumed(i, "publish", FALSE) =>
          /\ posts' = posts
          /\ content' = content
          /\ visibility' = visibility
          /\ attachments' = attachments
          /\ composerError' = tasks[i].msg
          /\ composerError' # Null
          /\ ~isPublishing']_vars

\* A publish has failed: its draft, with an attachment, is still in the
\* composer next to the error.
C6_Witness ==
  /\ \E i \in TaskIds :
       tasks[i].kind = "publish" /\ tasks[i].stage = "done" /\ ~tasks[i].ok
  /\ composerError = TransportMsg
  /\ Trim(content) # <<>>
  /\ attachments # <<>>
  /\ visibility = "friends"
  /\ Len(posts) = 2
  /\ ~isPublishing

\* An upload of a selected file is still running.
UploadInProgress == \E k \in SelectIds : selects[k].step \in {"url", "put"}

\* C7: while a selected file is still uploading, a publish attempt is rejected
\* locally: no request is sent, isPublishing stays false and the sequence of
\* posts is unchanged.
C7_NoPublishWhileUploading ==
  [][(UploadInProgress /\ Publish) =>
       /\ tasks' = tasks
       /\ ~isPublishing'
       /\ posts' = posts]_vars

HasFailedAttachment == Some(attachments, LAMBDA a : a.status = "error")

\* C8: while the draft holds an attachment in status error no publish request
\* is sent; a publish attempt leaves "media not ready" in the composer error
\* and the draft as it is; and the failed attachment keeps its state until it
\* leaves the draft.
C8_FailedAttachmentBlocks ==
  [][HasFailedAttachment =>
       /\ ~Issued("publish")
       /\ Publish =>
            /\ composerError' = MediaNotReadyMsg
            /\ UNCHANGED <<content, visibility, attachments, tasks,
                           isPublishing, posts>>
       /\ \A j \in 1..Len(attachments) : attachments[j].status = "error" =>
            \A m \in 1..Len(attachments') :
              attachments'[m].id = attachments[j].id =>
                attachments'[m] = attachments[j]]_vars

\* A draft with text and a failed attachment, after a rejected publish.
C8_Witness ==
  /\ HasFailedAttachment
  /\ Trim(content) # <<>>
  /\ composerError = MediaNotReadyMsg
  /\ \A i \in TaskIds : tasks[i].kind # "publish"

NoUploadedAttachment == ~Some(attachments, LAMBDA a : a.status = "uploaded")

\* C9: with empty or white-space-only text and no uploaded attachment no
\* publish request is sent; a publish attempt sets a validation error and
\* changes neither isPublishing nor the tasks nor the sequence of posts.
C9_EmptyPublishRejected ==
  [][(Trim(content) = <<>> /\ NoUploadedAttachment) =>
       /\ ~Issued("publish")
       /\ Publish =>
            /\ composerError' \in {EmptyPostMsg, MediaNotReadyMsg}
            /\ UNCHANGED <<tasks, isPublishing, posts>>]_vars

\* A white-space-only draft after a rejected publish.
C9_Witness ==
  /\ content = <<" ">>
  /\ attachments = <<>>
  /\ composerError = EmptyPostMsg
  /\ ~isPublishing
  /\ \A i \in TaskIds : tasks[i].kind # "publish"

\* C10: when a load() request succeeds the local sequence becomes the posts of
\* the response, in response order; nothing of the sequence shown before
\* survives unless the response holds it.
C10_LoadReplacesSequence ==
  [][\A i \in TaskIds : Resumed(i, "load", TRUE) =>
       posts' = tasks[i].posts]_vars

\* The reload after a failed like has wiped the optimistic flip the button
\* had made.
C10_Witness ==
  \E i \in TaskIds :
    /\ tasks[i].kind = "like" /\ tasks[i].reload /\ tasks[i].stage = "done"
    /\ tasks[i].ok /\ tasks[i].clicked /\ ~tasks[i].hasLiked
    /\ \E j \in Shown(posts, tasks[i].postId) :
         ~posts[j].has_liked /\ posts[j].likes_count = 0

\* Task j waits for GET /api/posts or for its response to be applied.
LoadInFlight(j) ==
  ReqKind(tasks[j]) = "load" /\ tasks[j].stage \in {"sent", "resp"}

\* C11: loads are neither exclusive nor coalesced.  When the response of one
\* load is applied while another load is still in flight, the sequence
\* becomes the posts of the response applied, whichever of the two was issued
\* first, and the other load stays in flight to be applied in its turn.
C11_LastAppliedLoadWins ==
  [][\A i, j \in TaskIds :
       (i # j /\ Resumed(i, "load", TRUE) /\ LoadInFlight(j)) =>
         /\ posts' = tasks[i].posts
         /\ tasks'[j] = tasks[j]]_vars

\* Two loads overlapped: the one issued later has been applied, and the
\* response of the one issued first, with other posts in it, is still to be
\* applied.
C11_Witness ==
  \E i, j \in TaskIds :
    /\ i < j
    /\ tasks[i].kind = "load" /\ tasks[i].stage = "resp" /\ tasks[i].ok
    /\ tasks[j].reload /\ tasks[j].stage = "done" /\ tasks[j].ok
    /\ i \in tasks[j].pending
    /\ posts # <<>>
    /\ posts # tasks[i].posts

\* No request is sent in the step: every task waiting for the server was
\* already waiting for it.
NoRequestSent ==
  \A k \in 1..Len(tasks') :
    tasks'[k].stage = "sent" => (k \in TaskIds /\ tasks[k].stage = "sent")

\* C12: deletePost(postId) does not touch the sequence when it sends its
\* request; when the server confirms, the posts with that id leave the
\* sequence and the others stay in order; when the request fails the sequence
\* is unchanged, the error message is set and no request is sent.
C12_DeleteAfterConfirmation ==
  [][/\ Issued("delete") => posts' = posts
     /\ \A i \in TaskIds : Resumed(i, "delete", TRUE) =>
          posts' = SelectSeq(posts, LAMBDA q : q.id # tasks[i].postId)
     /\ \A i \in TaskIds : Resumed(i, "delete", FALSE) =>
          /\ posts' = posts
          /\ fetchError' = tasks[i].msg
          /\ fetchError' # Null
          /\ Len(tasks') = Len(tasks)
          /\ NoRequestSent]_vars

\* The delete of the older post was confirmed and only the newer one is left;
\* another delete failed and left its error.
C12_Witness ==
  /\ \E i \in TaskIds :
       /\ tasks[i].kind = "delete" /\ tasks[i].stage = "done" /\ tasks[i].ok
       /\ tasks[i].postId = 1
  /\ \E i \in TaskIds :
       tasks[i].kind = "delete" /\ tasks[i].stage = "done" /\ ~tasks[i].ok
  /\ Len(posts) = 1 /\ posts[1].id = 2
  /\ fetchError = TransportMsg

\* C13: addComment does not touch the post when it sends its request; when
\* the server confirms, the comment of the response becomes the last comment
\* of the post, the comments shown before keep their places and
\* comments_count grows by one.
C13_CommentAppendedOnConfirmation ==
  [][/\ Issued("comment") => posts' = posts
     /\ \A i \in TaskIds : Resumed(i, "comment", TRUE) =>
          /\ Len(posts') = Len(posts)
          /\ \A j \in 1..Len(posts) :
               IF posts[j].id = tasks[i].postId
               THEN /\ posts'[j].comments = posts[j].comments \o tasks[i].comment
                    /\ posts'[j].comments_count = posts[j].comments_count + 1
                    /\ posts'[j].id = posts[j].id
               ELSE posts'[j] = posts[j]]_vars

\* A post shows two confirmed comments in the order they were created, with
\* the ids and the author the server gave them.
C13_Witness ==
  \E j \in 1..Len(posts) :
    /\ Len(posts[j].comments) = 2
    /\ posts[j].comments[1].id = 1 /\ posts[j].comments[2].id = 2
    /\ posts[j].comments[2].profiles = Viewer
    /\ posts[j].comments[2].text = <<"h">>
    /\ posts[j].comments_count = 2
    /\ AllDone

\* The last call made was an addComment with empty or white-space-only text.
BlankCommentCall ==
  Issued("comment") /\ tasks'[Len(tasks')].body.content = <<>>

\* C14: addComment with empty or white-space-only text does nothing: the call
\* is over at once, no request is sent, no load starts and neither the
\* sequence of posts nor the server changes.
C14_BlankCommentIsNoOp ==
  [][BlankCommentCall =>
       /\ tasks'[Len(tasks')].stage = "done"
       /\ SubSeq(tasks', 1, Len(tasks)) = tasks
       /\ NoRequestSent
       /\ UNCHANGED <<posts, isFetching, fetchError, srvPosts, nextCommentId>>]_vars

\* The feed is loaded, a blank comment was submitted, and the server was
\* never asked for it.
C14_Witness ==
  /\ \E i \in TaskIds :
       /\ tasks[i].kind = "comment" /\ tasks[i].body.content = <<>>
       /\ tasks[i].stage = "done" /\ tasks[i].served = 0 /\ ~tasks[i].reload
  /\ Len(posts) = 2
  /\ ~isFetching
  /\ nextCommentId = 1

\* The attachments that exist: those of the draft and those still held by a
\* running selection.
Known(sel, atts) ==
  {atts[j] : j \in 1..Len(atts)} \cup
  UNION {{sel[k].newAttachments[m] : m \in 1..Len(sel[k].newAttachments)} :
           k \in 1..Len(sel)}

KnownIds(sel, atts) == {a.id : a \in Known(sel, atts)}

\* C15: the status of an attachment changes at most once: an attachment that
\* is uploaded or error keeps that status in every step, as long as it exists.
C15_StatusMonotonic ==
  [][\A a \in Known(selects, attachments), b \in Known(selects', attachments') :
       (a.id = b.id /\ a.status # "uploading") => b.status = a.status]_vars

\* The first file of a selection is uploaded and has kept that status while
\* the second file went through its own upload and failed.
C15_Witness ==
  \E k \in SelectIds :
    /\ selects[k].step = "done" /\ selects[k].files = 2
    /\ Len(attachments) = 2
    /\ attachments[1].status = "uploaded"
    /\ attachments[2].status = "error"

\* The file a selection is uploading.
Cur(k) == selects[k].newAttachments[Len(selects[k].newAttachments)]

\* The attachment ends as a failure: status error, a message, no descriptor.
EndsFailed(b) == b.status = "error" /\ b.error # Null /\ b.remote = NoRemote

\* The attachment ends uploaded: the descriptor of its own file, no message.
EndsUploaded(b) ==
  /\ b.status = "uploaded" /\ b.error = Null
  /\ b.remote = <<[file_url |-> b.id, file_type |-> "image/png",
                   file_size |-> b.id, storage_bucket |-> "public"]>>

\* C16: a file ends uploaded, with its remote descriptor, exactly when its
\* upload-url request and then its PUT succeed, and ends in error with a
\* message when either fails; whatever happens to one file, every other
\* attachment stays as it is.
C16_FilesSettleIndependently ==
  [][\A k \in SelectIds, ok \in BOOLEAN :
       /\ UploadUrlSettle(k, ok) =>
            /\ \E b \in Known(selects', attachments') :
                 /\ b.id = Cur(k).id
                 /\ IF ok THEN b = Cur(k) ELSE EndsFailed(b)
            /\ Known(selects, attachments) \ {Cur(k)}
                 \subseteq Known(selects', attachments')
       /\ PutSettle(k, ok) =>
            /\ \E b \in Known(selects', attachments') :
                 /\ b.id = Cur(k).id
                 /\ IF ok THEN EndsUploaded(b) ELSE EndsFailed(b)
            /\ Known(selects, attachments) \ {Cur(k)}
                 \subseteq Known(selects', attachments')]_vars

\* Two files were selected together: the first failed at its upload-url
\* request and the second is uploaded.
C16_Witness ==
  /\ Len(attachments) = 2
  /\ attachments[1].status = "error" /\ attachments[1].error = TransportMsg
  /\ attachments[1].remote = NoRemote
  /\ EndsUploaded(attachments[2])
  /\ \E k \in SelectIds : selects[k].files = 2 /\ selects[k].step = "done"

\* C17: an attachment remove was called for, whatever its status at the
\* time, is not in the tracked set afterwards: the result of its upload
\* arriving later does not put it back.
C17_RemovedStaysRemoved ==
  \A j \in 1..Len(attachments) : attachments[j].id \notin removed

\* C18: every preview reference whose attachment is gone, removed from the
\* draft or cleared by a publish, has been released.
C18_PreviewsReleased ==
  \A id \in previewUrls :
    id \notin KnownIds(selects, attachments) => id \in revokedUrls

\* C19: while auth is still resolving no load has been requested, no post is
\* held and the page shows no feed, also when the session is already known
\* and only the profile is still being fetched.
C19_NoLoadWhileResolving ==
  loadingAuth => (tasks = <<>> /\ posts = <<>> /\ ~PageShown)

\* The session of the viewer has arrived and has been replaced once, and
\* auth is still resolving.
C19_Witness ==
  loadingAuth /\ user = Viewer /\ sessionGen = 2 /\ tasks = <<>>

\* The loads the load effect has started.
AutomaticLoads == {i \in TaskIds : tasks[i].kind = "load"}

\* C20: the step in which auth resolves with an identity starts one load,
\* made for that identity; after it, a step that leaves auth resolved and
\* the identity present (or absent) starts no load, the session object being
\* replaced included.
C20_OneAutomaticLoad ==
  [][/\ (loadingAuth /\ ~loadingAuth' /\ user' # NoUser) =>
          /\ Issued("load")
          /\ tasks'[Len(tasks')].as = user'
          /\ Cardinality({i \in 1..Len(tasks') : tasks'[i].kind = "load"}) = 1
     /\ (~loadingAuth /\ ~loadingAuth' /\ (user = NoUser) = (user' = NoUser)) =>
          ~Issued("load")]_vars

\* The one load made at resolution has been applied, and the session object
\* of the same user was replaced after it was started.
C20_Witness ==
  /\ ~loadingAuth /\ user = Viewer
  /\ Cardinality(AutomaticLoads) = 1
  /\ \A i \in AutomaticLoads :
       /\ tasks[i].as = Viewer /\ tasks[i].stage = "done" /\ tasks[i].ok
       /\ tasks[i].gen < sessionGen
  /\ Len(posts) = 2

\* C21: once auth has resolved with no identity the router points to the
\* login route, the page shows no feed, and no load was requested for the
\* session without identity.
C21_NoLoadWithoutIdentity ==
  (~loadingAuth /\ user = NoUser) =>
    /\ route = "/login"
    /\ ~PageShown
    /\ \A i \in TaskIds : tasks[i].kind = "load" => tasks[i].as # NoUser

\* The identity the feed was loaded for is not the one logged in now.
IdentityChanged ==
  \E i \in TaskIds :
    tasks[i].kind = "load" /\ tasks[i].ok /\ tasks[i].as \notin {user, NoUser}

\* C24: after the identity has changed from one user to another under the
\* mounted feed, with nothing pending, every post shown has the has_liked
\* and is_owner of the identity logged in now.
C24_FlagsFollowIdentity ==
  (PageShown /\ IdentityChanged /\ AllDone) =>
    \A j \in 1..Len(posts) :
      /\ posts[j].is_owner = (posts[j].user_id = user)
      /\ posts[j].has_liked = Some(posts[j].likes, LAMBDA u : u = user)

\* Task j is a toggleLike of the post that waits for its request or for its
\* response to be applied.
ToggleInFlight(j, postId) ==
  /\ tasks[j].kind = "like" /\ ~tasks[j].reload
  /\ tasks[j].postId = postId
  /\ tasks[j].stage \in {"sent", "resp"}

\* C29: two toggleLike requests of one post in flight together do not wait
\* for, delay or drop one another: when the response of one is applied, the
\* post takes has_liked, likes_count and likes from that response, whatever
\* the other call has flipped, and the other call stays in flight untouched.
C29_ConcurrentTogglesLastWins ==
  [][\A i, j \in TaskIds :
       (i # j /\ Resumed(i, "like", TRUE) /\ ToggleInFlight(j, tasks[i].postId)) =>
         /\ tasks'[j] = tasks[j]
         /\ \A k \in Shown(posts, tasks[i].postId) :
              /\ posts'[k].has_liked = tasks[i].snap.has_liked
              /\ posts'[k].likes_count = tasks[i].snap.likes_count
              /\ posts'[k].likes = tasks[i].snap.likes]_vars

\* A like and then an unlike of one post are both in flight; the response of
\* the like has been applied and shows the post liked again, over the flip of
\* the unlike, which still waits for its request to be handled.
C29_Witness ==
  \E i, j \in TaskIds :
    /\ i < j
    /\ tasks[i].kind = "like" /\ tasks[i].stage = "done" /\ tasks[i].ok
    /\ ~tasks[i].reload /\ ~tasks[i].hasLiked
    /\ i \in tasks[j].pending
    /\ ToggleInFlight(j, tasks[i].postId) /\ tasks[j].stage = "sent"
    /\ tasks[j].hasLiked /\ tasks[j].clicked
    /\ \E k \in Shown(posts, tasks[i].postId) :
         posts[k].has_liked /\ posts[k].likes_count = 1

\* C30: the files selected together are uploaded concurrently: from the
\* selection on, and as long as the selection runs, every one of its files
\* has its attachment, so the request of a later file is out before the
\* transfer of an earlier file has completed.
C30_FilesUploadConcurrently ==
  \A k \in SelectIds :
    selects[k].step \in {"url", "put"} =>
      Len(selects[k].newAttachments) = selects[k].files

\* The payload has been hydrated once.
Hydrated == norm.step \in {"once", "twice"}

\* C25: the hydrated post has the counter of the payload as likes_count when
\* the payload carries one, also when it differs from the number of likes,
\* and the length of the likes array otherwise (0 when there is no array);
\* comments_count follows the same rule with the comments array.
C25_CountersPreferPayload ==
  Hydrated =>
    LET raw == norm.raw[1]
        post == norm.once[1]
    IN /\ Carries(post, "likes_count") /\ Carries(post, "comments_count")
       /\ post.likes_count =
            IF "likes_count" \in raw.has THEN raw.likes_count
            ELSE IF "likes" \in raw.has THEN Len(raw.likes) ELSE 0
       /\ post.comments_count =
            IF "comments_count" \in raw.has THEN raw.comments_count
            ELSE IF "comments" \in raw.has THEN Len(raw.comments) ELSE 0

\* The payload has one like and one comment and carries the counters 2 and
\* 0: the hydrated post has the counters of the payload.
C25_Witness ==
  /\ Hydrated
  /\ {"likes", "comments", "likes_count", "comments_count"} \subseteq norm.raw[1].has
  /\ Len(norm.raw[1].likes) = 1 /\ norm.raw[1].likes_count = 2
  /\ Len(norm.raw[1].comments) = 1 /\ norm.raw[1].comments_count = 0
  /\ norm.once[1].likes_count = 2 /\ norm.once[1].comments_count = 0

\* C27: hydrating a hydrated post for the same viewer id changes nothing, and
\* the payload is as it was before hydratePost ran.
C27_HydrateIdempotent ==
  /\ [](norm.step = "twice" => norm.twice = norm.once)
  /\ [][norm'.raw = norm.raw /\ norm'.userId = norm.userId]_vars

\* A payload without counters, flags or arrays other than the like of the
\* viewer has been hydrated twice.
C27_Witness ==
  /\ norm.step = "twice"
  /\ norm.raw[1].has = {"likes"}
  /\ norm.raw[1].likes = <<norm.userId>>
  /\ norm.once[1].has_liked /\ norm.once[1].likes_count = 1
  /\ norm.twice[1].likes = <<norm.userId>>

\* C28: the hydrated post carries post_media, likes and comments, each the
\* array of the payload or the empty sequence when the payload has none.
C28_ArraysNeverNull ==
  Hydrated =>
    LET raw == norm.raw[1]
        post == norm.once[1]
    IN \A f \in {"post_media", "likes", "comments"} :
         /\ Carries(post, f)
         /\ post[f] = IF f \in raw.has THEN raw[f] ELSE <<>>

\* A payload with none of the three arrays has been hydrated to a post with
\* three empty sequences.
C28_Witness ==
  /\ Hydrated
  /\ norm.raw[1].has \cap {"post_media", "likes", "comments"} = {}
  /\ {"post_media", "likes", "comments"} \subseteq norm.once[1].has
  /\ norm.once[1].post_media = <<>>
  /\ norm.once[1].likes = <<>> /\ norm.once[1].comments = <<>>

\* C26: the posts the client holds after a response has been applied have
\* is_owner recomputed for the viewer the client has then: is_owner equals
\* (author of the post = id of the viewer), whatever the payload carries.
C26_OwnerRecomputedLocally ==
  [][\A i \in TaskIds :
       Resumed(i, "load", TRUE) =>
         \A j \in 1..Len(posts') :
           posts'[j].is_owner = (posts'[j].user_id = user')]_vars

\* A handler whose promise was rejected: an exception left it uncaught.
Rejected ==
  \/ \E i \in TaskIds : tasks[i].stage = "rejected"
  \/ \E k \in SelectIds : selects[k].step = "rejected"

\* C22: no operation ends in an uncaught failure. No handler is ever
\* rejected, and every failed request ends where its handler shows it: a
\* failed load or delete ends the call with the message in fetchError, a
\* failed publish with the message in composerError, a failed like or
\* comment goes on into a reload (whose own failure ends the call with the
\* message in fetchError), and a failed upload request marks its attachment
\* error with a message while the selection goes on.
C22_NoUncaughtFailure ==
  /\ [](~Rejected)
  /\ [][/\ \A i \in TaskIds :
            /\ Resumed(i, "load", FALSE) =>
                 /\ tasks'[i].stage = "done"
                 /\ fetchError' = tasks[i].msg /\ ~isFetching'
            /\ Resumed(i, "delete", FALSE) =>
                 tasks'[i].stage = "done" /\ fetchError' = tasks[i].msg
            /\ Resumed(i, "publish", FALSE) =>
                 /\ tasks'[i].stage = "done"
                 /\ composerError' = tasks[i].msg /\ ~isPublishing'
            /\ (Resumed(i, "like", FALSE) \/ Resumed(i, "comment", FALSE)) =>
                 /\ tasks'[i].stage = "sent" /\ tasks'[i].reload
                 /\ isFetching'
        /\ \A k \in SelectIds :
            (UploadUrlSettle(k, FALSE) \/ PutSettle(k, FALSE)) =>
              /\ selects'[k].step \in {"url", "done"}
              /\ \E b \in Known(selects', attachments') :
                   b.id = Cur(k).id /\ EndsFailed(b)]_vars

\* A like failed, the reload of its catch failed too, and the call has
\* ended with the message of the reload in fetchError; the file selected
\* meanwhile failed and its attachment carries its own message.
C22_Witness ==
  /\ ~Rejected
  /\ \E i \in TaskIds :
       /\ tasks[i].kind = "like" /\ tasks[i].reload
       /\ tasks[i].stage = "done" /\ ~tasks[i].ok
  /\ fetchError = TransportMsg /\ ~isFetching
  /\ Len(attachments) = 1 /\ attachments[1].status = "error"
  /\ AllDone

\* Every attachment that exists before and after the step has kept its error.
AttachmentErrorsKept ==
  \A a \in Known(selects, attachments), b \in Known(selects', attachments') :
    a.id = b.id => b.error = a.error

\* C23: the three kinds of message have slots of their own. The steps of a
\* load (its start and its end) and of deletePost leave composerError
\* and every attachment's error
\* as they are; the steps of publish (the call and the end of its request)
\* leave fetchError and every attachment's error as they are; a failed
\* upload request leaves fetchError, composerError and the error of every
\* other attachment as they are.
C23_SeparateErrorSlots ==
  [][/\ \A i \in TaskIds, ok \in BOOLEAN :
         /\ (Resumed(i, "load", ok) \/ Resumed(i, "delete", ok)) =>
              composerError' = composerError /\ AttachmentErrorsKept
         /\ Resumed(i, "publish", ok) =>
              fetchError' = fetchError /\ AttachmentErrorsKept
     /\ (Issued("load") \/ Issued("delete")) =>
          composerError' = composerError /\ AttachmentErrorsKept
     /\ Publish => fetchError' = fetchError /\ AttachmentErrorsKept
     /\ \A k \in SelectIds :
          (UploadUrlSettle(k, FALSE) \/ PutSettle(k, FALSE)) =>
            /\ fetchError' = fetchError /\ composerError' = composerError
            /\ \A a \in Known(selects, attachments),
                  b \in Known(selects', attachments') :
                 (a.id = b.id /\ a.id # Cur(k).id) => b.error = a.error]_vars

\* A publish and a delete have failed and the one file selected has failed
\* at its PUT: each of the three slots holds the message of its own failure.
C23_Witness ==
  /\ \E i \in TaskIds :
       tasks[i].kind = "publish" /\ tasks[i].stage = "done" /\ ~tasks[i].ok
  /\ \E i \in TaskIds :
       tasks[i].kind = "delete" /\ tasks[i].stage = "done" /\ ~tasks[i].ok
  /\ composerError = TransportMsg
  /\ fetchError = TransportMsg
  /\ Len(attachments) = 1 /\ attachments[1].error = UploadFailedMsg

\* C31: in the step in which addComment learns that its request has failed,
\* the posts are left as they are (no comment appended, no counter changed),
\* the call goes into one load and no other call is started or changed; the
\* call never leaves that load for a second one.
C31_FailedCommentReloadsOnce ==
  [][\A i \in TaskIds :
       /\ Resumed(i, "comment", FALSE) =>
            /\ posts' = posts
            /\ tasks'[i].stage = "sent" /\ tasks'[i].reload
            /\ isFetching'
            /\ Len(tasks') = Len(tasks)
            /\ \A j \in TaskIds \ {i} : tasks'[j] = tasks[j]
       /\ (tasks[i].kind = "comment" /\ tasks[i].reload) =>
            /\ tasks'[i].reload
            /\ tasks'[i].stage # tasks[i].stage =>
                 <<tasks[i].stage, tasks'[i].stage>> \in
                   {<<"sent", "resp">>, <<"resp", "done">>}]_vars

\* The request of a comment on post 1 failed in transit; the reload has
\* been applied and the post shows no comment of the call.
C31_Witness ==
  /\ \E i \in TaskIds :
       /\ tasks[i].kind = "comment" /\ tasks[i].reload
       /\ tasks[i].stage = "done" /\ tasks[i].ok
       /\ tasks[i].postId = 1
  /\ \A i \in TaskIds : tasks[i].kind \in {"load", "comment"}
  /\ Cardinality({i \in TaskIds : tasks[i].kind = "comment"}) = 1
  /\ \E j \in 1..Len(posts) :
       posts[j].id = 1 /\ posts[j].comments = <<>> /\ posts[j].comments_count = 0

\* A load starts in the step: the automatic load, or the reload of a like or
\* a comment whose request has failed.
LoadStarts ==
  \/ Issued("load")
  \/ \E i \in TaskIds : Resumed(i, "like", FALSE) \/ Resumed(i, "comment", FALSE)

\* C32: the step in which a load learns that its request has failed leaves
\* the posts and the composer (text, visibility, attachments, composer
\* error, publishing flag) as they are and puts the message into fetchError;
\* fetchError, once set, is cleared only by a step that starts a load.
C32_FailedLoadKeepsPosts ==
  [][/\ \A i \in TaskIds :
          Resumed(i, "load", FALSE) =>
            /\ posts' = posts
            /\ fetchError' = tasks[i].msg /\ fetchError' # Null
            /\ UNCHANGED <<content, visibility, attachments, composerError,
                           isPublishing>>
     /\ (fetchError # Null /\ fetchError' = Null) => LoadStarts]_vars

\* A like failed and its reload failed while a publish is in flight and a
\* file is in the draft: the post still shows the flip, the message is in
\* fetchError and the composer is publishing as before.
C32_Witness ==
  /\ \E i \in TaskIds :
       /\ tasks[i].kind = "like" /\ tasks[i].reload
       /\ tasks[i].stage = "done" /\ ~tasks[i].ok
  /\ fetchError = TransportMsg /\ ~isFetching
  /\ \E j \in 1..Len(posts) : posts[j].id = 1 /\ posts[j].has_liked
  /\ isPublishing /\ composerError = Null
  /\ Len(attachments) = 1 /\ attachments[1].status = "uploaded"

\* A call of handlePublish returns at one of its two validations.
PublishRefused ==
  /\ tasks' = tasks
  /\ composerError' # composerError
  /\ composerError' \in {MediaNotReadyMsg, EmptyPostMsg}

\* C33: isPublishing is false at the start; it turns true only in the step
\* in which a publish that passed validation sends its request, and it is
\* true after every such step; it turns false only in the step in which a
\* publish request settles, and it is false after every such step, on success
\* and on failure; a call refused by validation leaves it as it is; and with
\* a transport that answers, publishing always leads back to idle.
C33_ComposerIdlePublishingIdle ==
  /\ ~isPublishing
  /\ [][/\ Issued("publish") => isPublishing'
        /\ (~isPublishing /\ isPublishing') => Issued("publish")
        /\ \A i \in TaskIds, ok \in BOOLEAN :
             Resumed(i, "publish", ok) => ~isPublishing'
        /\ (isPublishing /\ ~isPublishing') =>
             \E i \in TaskIds, ok \in BOOLEAN : Resumed(i, "publish", ok)
        /\ PublishRefused => isPublishing' = isPublishing]_vars
  /\ isPublishing ~> ~isPublishing

\* A publish of "h" failed and left the composer idle, with the message of
\* the failure and the text still in the draft.
C33_Witness ==
  /\ ~isPublishing
  /\ \E i \in TaskIds :
       tasks[i].kind = "publish" /\ tasks[i].stage = "done" /\ ~tasks[i].ok
  /\ composerError = TransportMsg
  /\ content = <<"h">>

\* The requests of handlePublish that have not settled.
PublishesInFlight ==
  {i \in TaskIds : tasks[i].kind = "publish" /\ tasks[i].stage \in {"sent", "resp"}}

\* C37: at most one publish request is in flight at any time: a call of
\* publish made while isPublishing is true sends no request.
C37_OnePublishInFlight ==
  /\ Cardinality(PublishesInFlight) <= 1
  /\ \A i \in PublishesInFlight : isPublishing

\* C34: the post sequence never holds two entries with the same post id.
C34_NoDuplicatePostIds ==
  \A j, k \in 1..Len(posts) : j # k => posts[j].id # posts[k].id

\* The delete of task i was called on a loaded feed, has been confirmed, and
\* the server no longer has the post.
DeleteConfirmed(i) ==
  /\ tasks[i].kind = "delete" /\ tasks[i].stage = "done" /\ tasks[i].ok
  /\ ~PostExists(srvPosts, tasks[i].postId)
  /\ \E j \in 1..(i - 1) :
       /\ tasks[j].kind = "load" /\ tasks[j].ok
       /\ j \notin tasks[i].pending

\* C35: a post whose delete has been confirmed is not in the sequence:
\* nothing puts it back, also not the response of a load that was issued
\* before the server had processed the delete.
C35_DeletedStaysDeleted ==
  \A i \in TaskIds :
    DeleteConfirmed(i) => Shown(posts, tasks[i].postId) = {}

\* C36: isFetching is true whenever a load request is in flight, the
\* automatic load or the reload of a failed like or comment; it is false
\* only when none is.
C36_FetchingWhileLoadInFlight ==
  (\E j \in TaskIds : LoadInFlight(j)) => isFetching

\* The ids of the attachments the request of task i carried.
CarriedBy(i) ==
  {tasks[i].body.media[m].file_url : m \in 1..Len(tasks[i].body.media)}

\* C38: the step that applies a successful publish removes from the draft
\* only the attachments its request carried: every attachment appended since
\* the request was sent is still in the draft after the step.
C38_PublishKeepsNewAttachments ==
  [][\A i \in TaskIds :
       Resumed(i, "publish", TRUE) =>
         \A j \in 1..Len(attachments) :
           attachments[j].id \notin CarriedBy(i) =>
             \E k \in 1..Len(attachments') : attachments'[k] = attachments[j]]_vars

\* C39: every attachment of the draft has a remote descriptor exactly when
\* its status is uploaded and an error message exactly when its status is
\* error; and the request of a publish that passed validation carries one
\* media reference for each attachment of the draft, in the order of the
\* draft.
C39_RemoteIffUploaded ==
  /\ [](\A j \in 1..Len(attachments) :
          /\ (attachments[j].remote # NoRemote) <=> (attachments[j].status = "uploaded")
          /\ (attachments[j].error # Null) <=> (attachments[j].status = "error"))
  /\ [][Issued("publish") =>
          LET media == tasks'[Len(tasks')].body.media IN
          /\ Len(media) = Len(attachments)
          /\ \A j \in 1..Len(attachments) :
               /\ attachments[j].status = "uploaded"
               /\ <<media[j]>> = attachments[j].remote]_vars

\* Two files were selected together and uploaded, and the request of a
\* publish carries their two descriptors in the order of the draft.
C39_Witness ==
  /\ Len(attachments) = 2
  /\ \E i \in TaskIds :
       /\ tasks[i].kind = "publish" /\ tasks[i].stage = "sent"
       /\ Len(tasks[i].body.media) = 2
       /\ tasks[i].body.media[1].file_url = attachments[1].id
       /\ tasks[i].body.media[2].file_url = attachments[2].id
       /\ attachments[1].id # attachments[2].id

\* Every toggleLike so far was made from the button of the post as rendered.
AllFromButton ==
  \A i \in TaskIds : tasks[i].kind = "like" => tasks[i].clicked

\* C40: as long as every toggleLike passes the has_liked the post shows,
\* every post has likes_count >= 0, and likes_count >= 1 when it shows
\* has_liked, through all flips, reconciliations and reloads.
C40_LikeCountNeverNegative ==
  AllFromButton =>
    \A j \in 1..Len(posts) :
      /\ posts[j].likes_count >= 0
      /\ posts[j].has_liked => posts[j].likes_count >= 1

\* A like and then an unlike were made from the button of the same post;
\* the like has been reconciled, the unlike is still in flight after the
\* response of the like was applied over its flip.
C40_Witness ==
  /\ AllFromButton
  /\ \E i, k \in TaskIds :
       /\ i < k
       /\ tasks[i].kind = "like" /\ ~tasks[i].hasLiked
       /\ tasks[i].stage = "done" /\ tasks[i].ok /\ ~tasks[i].reload
       /\ tasks[k].kind = "like" /\ tasks[k].hasLiked
       /\ tasks[k].postId = tasks[i].postId
       /\ tasks[k].stage = "sent" /\ i \in tasks[k].pending
       /\ \E j \in Shown(posts, tasks[i].postId) :
            posts[j].has_liked /\ posts[j].likes_count >= 1

====
